---- MODULE Spec2Model ----
(***************************************************************************)
(* kitty::is_threshold (include/kitty/threshold_identification.hpp).       *)
(*                                                                         *)
(* One call of is_threshold( tt, plf ) as a state machine: the unateness   *)
(* loop, the two ISOP covers, the allocation of the LP model and its two   *)
(* buffers, one add_constraintex per cube, the objective, solve, the       *)
(* extraction of the variables, the polarity adjustment and the store      *)
(* through plf.                                                            *)
(*                                                                         *)
(* A truth table is a record [n, on]: n variables, numbered 0..n-1 as in   *)
(* the code, and the set of minterms (numbers 0..2^n-1, bit i of a minterm *)
(* being the value of variable i) on which the function is 1.              *)
(***************************************************************************)
EXTENDS Integers, Sequences, FiniteSets, TLC

(* ---------------------------------------------------------------- bounds *)

\* Every truth table of at most MaxVars variables is an input.
MaxVars == 2

\* The LP solver's values are the multiples of 1/Den in [0, MaxW]: a REAL v is
\* held as the integer v * Den.
Den == 2
MaxW == 2

(* ------------------------------------------------- truth table primitives *)

RECURSIVE Pow2(_)
Pow2(e) == IF e = 0 THEN 1 ELSE 2 * Pow2(e - 1)

Minterms(n) == 0 .. (Pow2(n) - 1)

Vars(n) == 0 .. (n - 1)

Bit(m, v) == (m \div Pow2(v)) % 2

\* minterm m with variable v set to b
SetBit(m, v, b) == m - Bit(m, v) * Pow2(v) + b * Pow2(v)

\* kitty::cofactor0 / cofactor1: tt with variable v fixed, still over n variables
cofactor0(t, v) == [n |-> t.n, on |-> {m \in Minterms(t.n) : SetBit(m, v, 0) \in t.on}]

cofactor1(t, v) == [n |-> t.n, on |-> {m \in Minterms(t.n) : SetBit(m, v, 1) \in t.on}]

\* operator| and operator~ on truth tables
tt_or(a, b) == [n |-> a.n, on |-> a.on \cup b.on]

tt_not(t) == [n |-> t.n, on |-> Minterms(t.n) \ t.on]

\* kitty::flip_inplace: the function with variable v complemented
flip(t, v) == [n |-> t.n, on |-> {m \in Minterms(t.n) : SetBit(m, v, 1 - Bit(m, v)) \in t.on}]

\* kitty::has_var on a set of minterms
has_var(s, n, v) == \E m \in Minterms(n) : (SetBit(m, v, 0) \in s) # (SetBit(m, v, 1) \in s)

(* -------------------------------------------------------------- isop.hpp *)

\* A cube is [mask, bits]: the variables it has a literal of, and those among
\* them whose literal is positive (cube::get_mask, cube::get_bit).
EmptyCube == [mask |-> {}, bits |-> {}]

add_literal(c, v, pol) ==
  [mask |-> c.mask \cup {v}, bits |-> IF pol THEN c.bits \cup {v} ELSE c.bits \ {v}]

\* add_literal on each cube of a sequence
add_literal_all(cubes, v, pol) == [j \in 1 .. Len(cubes) |-> add_literal(cubes[j], v, pol)]

\* kitty::detail::isop_rec (Minato-Morreale): tt the lower bound, dc the upper
\* bound, both sets of minterms over n variables; returns the cover found
\* and its cubes.
RECURSIVE isop_rec(_, _, _, _)
isop_rec(lo, up, var_index, n) ==
  IF lo = {} THEN [res |-> {}, cubes |-> <<>>]
  ELSE IF up = Minterms(n) THEN [res |-> up, cubes |-> <<EmptyCube>>]
  ELSE
    LET cand == {v \in 0 .. (var_index - 1) : has_var(lo, n, v) \/ has_var(up, n, v)}
        var  == CHOOSE v \in cand : \A u \in cand : u <= v
        c0(s) == {m \in Minterms(n) : SetBit(m, var, 0) \in s}
        c1(s) == {m \in Minterms(n) : SetBit(m, var, 1) \in s}
        tt0 == c0(lo)
        tt1 == c1(lo)
        dc0 == c0(up)
        dc1 == c1(up)
        r0 == isop_rec(tt0 \ dc1, dc0, var, n)
        r1 == isop_rec(tt1 \ dc0, dc1, var, n)
        r2 == isop_rec((tt0 \ r0.res) \cup (tt1 \ r1.res), dc0 \cap dc1, var, n)
        var0 == {m \in Minterms(n) : Bit(m, var) = 1}
    IN [res   |-> r2.res \cup (r0.res \ var0) \cup (r1.res \cap var0),
        cubes |-> add_literal_all(r0.cubes, var, FALSE) \o add_literal_all(r1.cubes, var, TRUE) \o r2.cubes]

\* kitty::isop( tt ): the cubes of an irredundant sum of products of tt
isop(t) == isop_rec(t.on, t.on, t.n, t.n).cubes

\* the minterms a cube covers
CubeCovers(c, n) ==
  {m \in Minterms(n) : \A v \in c.mask : Bit(m, v) = (IF v \in c.bits THEN 1 ELSE 0)}

(* ------------------------------------------------------------- the inputs *)

AllTT(n) == {[n |-> n, on |-> s] : s \in SUBSET Minterms(n)}

\* the function  sum_i w[i+1] * x_i >= T  of Len(w) variables
Dot(w, m) == LET RECURSIVE acc(_)
                 acc(v) == IF v = Len(w) THEN 0 ELSE w[v + 1] * Bit(m, v) + acc(v + 1)
             IN acc(0)

FromForm(w, T) == [n |-> Len(w), on |-> {m \in Minterms(Len(w)) : Dot(w, m) >= T}]

\* Truth tables of three and four variables called beside the exhaustive
\* ones: majority, forms with negative and ignored variables, parity,
\* !x0 (x1 xor x2), and the two unate functions  x0 x1 + x2 x3  and
\* x0 x1 + !x2 !x3  that no linear form separates.
Samples ==
  { FromForm(<<1, 1, 1>>, 2),
    FromForm(<<-1, 1, 1>>, 1),
    FromForm(<<2, -1, 1>>, 1),
    FromForm(<<-1, 0, 1>>, 1),
    FromForm(<<1, 0, -1, 1>>, 1),
    FromForm(<<2, -1, 1, 1>>, 2),
    FromForm(<<-1, 2, -1>>, 1),
    [n |-> 3, on |-> {m \in Minterms(3) : Bit(m, 0) = 0 /\ Bit(m, 1) # Bit(m, 2)}],
    [n |-> 3, on |-> {m \in Minterms(3) : (Bit(m, 0) + Bit(m, 1) + Bit(m, 2)) % 2 = 1}],
    [n |-> 4, on |-> {m \in Minterms(4) : Bit(m, 0) * Bit(m, 1) + Bit(m, 2) * Bit(m, 3) >= 1}],
    [n |-> 4, on |-> {m \in Minterms(4) :
                         Bit(m, 0) * Bit(m, 1) + (1 - Bit(m, 2)) * (1 - Bit(m, 3)) >= 1}] }

Inputs == UNION {AllTT(n) : n \in 0 .. MaxVars} \cup Samples

\* what the caller's vector holds before the call
OldForm == <<7, 7>>

(* --------------------------------------------------------------- the state *)

VARIABLES
  tt,           \* the argument tt
  plf,          \* the argument plf: "null" or "vec" (a pointer to the caller's vector)
  plf_vec,      \* the caller's vector
  pc,           \* the position in is_threshold
  ttf,          \* the working copy
  neg_unate,    \* std::vector<uint64_t> neg_unate
  i,            \* the unateness loop's variable
  fcubes,       \* isop( ttf )
  nfcubes,      \* isop( ~ttf )
  colno,        \* the buffer colno: "none", "live", "null" (malloc failed), "freed"
  row,          \* the buffer row, likewise
  lp,           \* the LP model, likewise
  rows,         \* the constraints added to lp
  obj,          \* the columns of the objective function
  k,            \* the number of cubes of the current cover already added
  sol,          \* what get_variables wrote to row: ncol values, each times Den
  linear_form,  \* std::vector<int64_t> linear_form
  ret,          \* "none", "true", "false", or "segv" (the call never returned)
  hist          \* what has happened: the calls of isop and solve, the stores
                \* through plf, whether the solver library failed

vars == <<tt, plf, plf_vec, pc, ttf, neg_unate, i, fcubes, nfcubes, colno, row, lp,
          rows, obj, k, sol, linear_form, ret, hist>>

numvars == tt.n

ncol == numvars + 1

Init ==
  /\ tt \in Inputs
  /\ plf \in {"null", "vec"}
  /\ plf_vec = OldForm
  /\ pc = "unate"
  /\ ttf = tt
  /\ neg_unate = <<>>
  /\ i = 0
  /\ fcubes = <<>>
  /\ nfcubes = <<>>
  /\ colno = "none"
  /\ row = "none"
  /\ lp = "none"
  /\ rows = <<>>
  /\ obj = {}
  /\ k = 0
  /\ sol = <<>>
  /\ linear_form = <<>>
  /\ ret = "none"
  /\ hist = [isop |-> 0, solve |-> 0, stores |-> 0, fault |-> FALSE]

(* ------------------------------------------------ the unateness loop, 79-101 *)

\* Classify with the test of line 96 lost: what is not negative unate is taken
\* as positive unate.
Classify_NoBinate(t, v) ==
  LET tt1 == cofactor0(t, v)
      tt2 == cofactor1(t, v)
      smoothing == tt_or(tt1, tt2)
  IN IF tt1 = tt2 THEN "dontcare"
     ELSE IF tt1 = smoothing THEN "negative"
     ELSE "positive"

\* Classify with the two cofactors exchanged.
Classify_Swapped(t, v) ==
  LET tt1 == cofactor1(t, v)
      tt2 == cofactor0(t, v)
      smoothing == tt_or(tt1, tt2)
  IN IF tt1 = tt2 THEN "dontcare"
     ELSE IF tt1 = smoothing THEN "negative"
     ELSE IF tt2 # smoothing THEN "binate"
     ELSE "positive"

\* The class of variable v of t, as lines 81-100 decide it.
Classify(t, v) ==
  LET tt1 == cofactor0(t, v)
      tt2 == cofactor1(t, v)
      smoothing == tt_or(tt1, tt2)
  IN IF tt1 = tt2 THEN "dontcare"
     ELSE IF tt1 = smoothing THEN "negative"
     ELSE IF tt2 # smoothing THEN "binate"
     ELSE "positive"

solver_untouched == UNCHANGED <<fcubes, nfcubes, colno, row, lp, rows, obj, k, sol, linear_form>>

DontCare ==
  /\ pc = "unate" /\ i < numvars
  /\ Classify(ttf, i) = "dontcare"
  /\ i' = i + 1
  /\ UNCHANGED <<tt, plf, plf_vec, pc, ttf, neg_unate, ret, hist>>
  /\ solver_untouched

NegativeUnate ==
  /\ pc = "unate" /\ i < numvars
  /\ Classify(ttf, i) = "negative"
  /\ ttf' = flip(ttf, i)
  /\ neg_unate' = Append(neg_unate, i)
  /\ i' = i + 1
  /\ UNCHANGED <<tt, plf, plf_vec, pc, ret, hist>>
  /\ solver_untouched

Binate ==
  /\ pc = "unate" /\ i < numvars
  /\ Classify(ttf, i) = "binate"
  /\ pc' = "done"
  /\ ret' = "false"
  /\ UNCHANGED <<tt, plf, plf_vec, ttf, neg_unate, i, hist>>
  /\ solver_untouched

PositiveUnate ==
  /\ pc = "unate" /\ i < numvars
  /\ Classify(ttf, i) = "positive"
  /\ i' = i + 1
  /\ UNCHANGED <<tt, plf, plf_vec, pc, ttf, neg_unate, ret, hist>>
  /\ solver_untouched

(* ------------------------------------------------------ the covers, 105-109 *)

ComputeISOPs ==
  /\ pc = "unate" /\ i = numvars
  /\ fcubes' = isop(ttf)
  /\ nfcubes' = isop(tt_not(ttf))
  /\ hist' = [hist EXCEPT !.isop = @ + 2]
  /\ pc' = "alloc"
  /\ UNCHANGED <<tt, plf, plf_vec, ttf, neg_unate, i, colno, row, lp, rows, obj, k, sol,
                 linear_form, ret>>

(* ------------------------------------------- the LP model and buffers, 111-127 *)

\* malloc and make_lp each give a live object or a null pointer
AllocOutcomes == {"live", "null"}

AllocOk ==
  /\ pc = "alloc"
  /\ colno' = "live" /\ row' = "live" /\ lp' = "live"
  /\ pc' = "on"
  /\ k' = 0
  /\ UNCHANGED <<tt, plf, plf_vec, ttf, neg_unate, i, fcubes, nfcubes, rows, obj, sol,
                 linear_form, ret, hist>>

\* line 117: any of the three is null; the function returns at line 119
AllocFails ==
  /\ pc = "alloc"
  /\ \E c \in AllocOutcomes, r \in AllocOutcomes, l \in AllocOutcomes :
       /\ (l = "null" \/ c = "null" \/ r = "null")
       /\ colno' = c /\ row' = r /\ lp' = l
  /\ pc' = "done"
  /\ ret' = "false"
  /\ hist' = [hist EXCEPT !.fault = TRUE]
  /\ UNCHANGED <<tt, plf, plf_vec, ttf, neg_unate, i, fcubes, nfcubes, rows, obj, k, sol,
                 linear_form>>

(* ------------------------------------------------- the constraints, 129-167 *)

\* A row of the LP is [coef, rel, rhs]: coef[c] the coefficient of column c
\* (columns 1..n are the weights, column n+1 the threshold).

\* OnRow with the column test of the OFF-set loop (line 154)
OnRow_Unmasked(cube, n) ==
  [coef |-> [c \in 1 .. (n + 1) |->
               IF c = n + 1 THEN -1
               ELSE IF (c - 1) \notin cube.mask \/ ((c - 1) \in cube.mask /\ (c - 1) \in cube.bits)
                    THEN 1 ELSE 0],
   rel  |-> "GE",
   rhs  |-> 0]

\* lines 131-143: the row of an ON-set cube
OnRow(cube, n) ==
  [coef |-> [c \in 1 .. (n + 1) |->
               IF c = n + 1 THEN -1
               ELSE IF (c - 1) \in cube.mask /\ (c - 1) \in cube.bits THEN 1 ELSE 0],
   rel  |-> "GE",
   rhs  |-> 0]

\* OffRow with right-hand side 0: the OFF-set is no longer kept strictly
\* below the threshold
OffRow_NonStrict(cube, n) ==
  [coef |-> [c \in 1 .. (n + 1) |->
               IF c = n + 1 THEN -1
               ELSE IF (c - 1) \notin cube.mask \/ ((c - 1) \in cube.mask /\ (c - 1) \in cube.bits)
                    THEN 1 ELSE 0],
   rel  |-> "LE",
   rhs  |-> 0]

\* lines 151-163: the row of an OFF-set cube
OffRow(cube, n) ==
  [coef |-> [c \in 1 .. (n + 1) |->
               IF c = n + 1 THEN -1
               ELSE IF (c - 1) \notin cube.mask \/ ((c - 1) \in cube.mask /\ (c - 1) \in cube.bits)
                    THEN 1 ELSE 0],
   rel  |-> "LE",
   rhs  |-> -1]

AddOnRow ==
  /\ pc = "on" /\ k < Len(fcubes)
  /\ rows' = Append(rows, OnRow(fcubes[k + 1], numvars))
  /\ k' = k + 1
  /\ UNCHANGED <<tt, plf, plf_vec, pc, ttf, neg_unate, i, fcubes, nfcubes, colno, row, lp,
                 obj, sol, linear_form, ret, hist>>

\* add_constraintex returns false: lines 143-146
AddOnRowFails ==
  /\ pc = "on" /\ k < Len(fcubes)
  /\ pc' = "done"
  /\ ret' = "false"
  /\ hist' = [hist EXCEPT !.fault = TRUE]
  /\ UNCHANGED <<tt, plf, plf_vec, ttf, neg_unate, i, fcubes, nfcubes, colno, row, lp, rows,
                 obj, k, sol, linear_form>>

OnRowsDone ==
  /\ pc = "on" /\ k = Len(fcubes)
  /\ pc' = "off"
  /\ k' = 0
  /\ UNCHANGED <<tt, plf, plf_vec, ttf, neg_unate, i, fcubes, nfcubes, colno, row, lp, rows,
                 obj, sol, linear_form, ret, hist>>

AddOffRow ==
  /\ pc = "off" /\ k < Len(nfcubes)
  /\ rows' = Append(rows, OffRow(nfcubes[k + 1], numvars))
  /\ k' = k + 1
  /\ UNCHANGED <<tt, plf, plf_vec, pc, ttf, neg_unate, i, fcubes, nfcubes, colno, row, lp,
                 obj, sol, linear_form, ret, hist>>

\* add_constraintex returns false: lines 163-166
AddOffRowFails ==
  /\ pc = "off" /\ k < Len(nfcubes)
  /\ pc' = "done"
  /\ ret' = "false"
  /\ hist' = [hist EXCEPT !.fault = TRUE]
  /\ UNCHANGED <<tt, plf, plf_vec, ttf, neg_unate, i, fcubes, nfcubes, colno, row, lp, rows,
                 obj, k, sol, linear_form>>

(* --------------------------------------------------- the objective, 169-181 *)

\* ObjectiveCols with the weights left out
ObjectiveCols_ThresholdOnly(n) == {n + 1}

\* lines 172-176: the columns given coefficient 1 in the objective
ObjectiveCols(n) == 1 .. (n + 1)

SetObjective ==
  /\ pc = "off" /\ k = Len(nfcubes)
  /\ obj' = ObjectiveCols(numvars)
  /\ pc' = "solve"
  /\ UNCHANGED <<tt, plf, plf_vec, ttf, neg_unate, i, fcubes, nfcubes, colno, row, lp, rows,
                 k, sol, linear_form, ret, hist>>

\* set_obj_fnex returns false: lines 177-180
SetObjectiveFails ==
  /\ pc = "off" /\ k = Len(nfcubes)
  /\ pc' = "done"
  /\ ret' = "false"
  /\ hist' = [hist EXCEPT !.fault = TRUE]
  /\ UNCHANGED <<tt, plf, plf_vec, ttf, neg_unate, i, fcubes, nfcubes, colno, row, lp, rows,
                 obj, k, sol, linear_form>>

(* ----------------------------------------------------------- solve, 183-193 *)

\* The columns of make_lp( 0, ncol ) are real with lower bound 0 and no upper
\* bound, and no column is made integer; set_minim asks for the minimum of
\* the objective.  A point of the LP is a sequence of ncol values times Den.
\* With no integer column, no timeout and no break value set, solve gives
\* OPTIMAL for a feasible LP (never SUBOPTIMAL) and INFEASIBLE otherwise; the
\* objective is bounded below by 0.

Grid == 0 .. (MaxW * Den)

SumOver(x, S) == LET RECURSIVE acc(_)
                     acc(c) == IF c > Len(x) THEN 0
                               ELSE (IF c \in S THEN x[c] ELSE 0) + acc(c + 1)
                 IN acc(1)

\* the weight columns' part of a row's left-hand side
RowWeights(r, w) == LET RECURSIVE acc(_)
                        acc(c) == IF c > Len(w) THEN 0 ELSE r.coef[c] * w[c] + acc(c + 1)
                    IN acc(1)

Max(S) == CHOOSE a \in S : \A b \in S : b <= a

Min(S) == CHOOSE a \in S : \A b \in S : a <= b

\* Every row has coefficient -1 in the threshold column: with the weights w
\* fixed, a GE row bounds the threshold from above and an LE row from below,
\* and the minimum takes the least threshold allowed.
ThrLow(R, w) ==
  Max({0} \cup {RowWeights(R[j], w) - R[j].rhs * Den : j \in {h \in DOMAIN R : R[h].rel = "LE"}})

ThrFits(R, w, T) ==
  \A j \in DOMAIN R : R[j].rel = "GE" => RowWeights(R[j], w) - T >= R[j].rhs * Den

\* the feasible points of least threshold, one for each choice of weights
LpPoints(R, n) ==
  {Append(w, ThrLow(R, w)) : w \in {u \in [1 .. n -> Grid] : ThrFits(R, u, ThrLow(R, u))}}

\* solve + get_variables: the optimal points of the LP with rows R and
\* objective columns O; empty when the LP is infeasible
LpSolutions(R, O, n) ==
  LET pts  == LpPoints(R, n)
      best == Min({SumOver(x, O) : x \in pts})
  IN IF pts = {} THEN {} ELSE {x \in pts : SumOver(x, O) = best}

release == colno' = "freed" /\ row' = "freed" /\ lp' = "freed"

\* result is INFEASIBLE: lines 187-193
SolveInfeasible ==
  /\ pc = "solve"
  /\ LpSolutions(rows, obj, numvars) = {}
  /\ hist' = [hist EXCEPT !.solve = @ + 1]
  /\ release
  /\ pc' = "done"
  /\ ret' = "false"
  /\ UNCHANGED <<tt, plf, plf_vec, ttf, neg_unate, i, fcubes, nfcubes, rows, obj, k, sol,
                 linear_form>>

\* solve fails for a reason of its own (NOMEMORY, NUMFAILURE, ...): the
\* result is neither OPTIMAL nor SUBOPTIMAL, lines 187-193
SolveError ==
  /\ pc = "solve"
  /\ hist' = [hist EXCEPT !.solve = @ + 1, !.fault = TRUE]
  /\ release
  /\ pc' = "done"
  /\ ret' = "false"
  /\ UNCHANGED <<tt, plf, plf_vec, ttf, neg_unate, i, fcubes, nfcubes, rows, obj, k, sol,
                 linear_form>>

\* result is OPTIMAL; get_variables( lp, row ) at line 197
SolveOptimal ==
  /\ pc = "solve"
  /\ \E x \in LpSolutions(rows, obj, numvars) : sol' = x
  /\ hist' = [hist EXCEPT !.solve = @ + 1]
  /\ pc' = "form"
  /\ UNCHANGED <<tt, plf, plf_vec, ttf, neg_unate, i, fcubes, nfcubes, colno, row, lp, rows,
                 obj, k, linear_form, ret>>

(* ------------------------------------------------- the linear form, 195-209 *)

\* static_cast<int64_t>( REAL ) of a value >= 0 held times Den: truncation
CastInt64(v) == v \div Den

\* PushValues with the loop stopping at numvars: the threshold is not pushed
PushValues_Short(x) == [c \in 1 .. (Len(x) - 1) |-> CastInt64(x[c])]

\* lines 199-202
PushValues(x) == [c \in 1 .. Len(x) |-> CastInt64(x[c])]

\* AdjustOne with lines 207 and 208 exchanged: the weight is added to the
\* threshold before it is negated
AdjustOne_AddFirst(lf, var) ==
  LET a == [lf EXCEPT ![Len(lf)] = lf[Len(lf)] + lf[var + 1]]
  IN [a EXCEPT ![var + 1] = -a[var + 1]]

\* lines 207-208, for one variable of neg_unate
AdjustOne(lf, var) ==
  LET a == [lf EXCEPT ![var + 1] = -lf[var + 1]]
  IN [a EXCEPT ![Len(lf)] = a[Len(lf)] + a[var + 1]]

\* lines 205-209, for the variables of neg_unate from position j on
RECURSIVE Adjust(_, _, _)
Adjust(lf, nu, j) ==
  IF j > Len(nu) THEN lf ELSE Adjust(AdjustOne(lf, nu[j]), nu, j + 1)

BuildForm ==
  /\ pc = "form"
  /\ linear_form' = Adjust(PushValues(sol), neg_unate, 1)
  /\ pc' = "store"
  /\ UNCHANGED <<tt, plf, plf_vec, ttf, neg_unate, i, fcubes, nfcubes, colno, row, lp, rows,
                 obj, k, sol, ret, hist>>

(* ------------------------------------------------ the store and return, 211-216 *)

\* *plf = linear_form with plf pointing to the caller's vector
Store ==
  /\ pc = "store" /\ plf = "vec"
  /\ plf_vec' = linear_form
  /\ hist' = [hist EXCEPT !.stores = @ + 1]
  /\ release
  /\ pc' = "done"
  /\ ret' = "true"
  /\ UNCHANGED <<tt, plf, ttf, neg_unate, i, fcubes, nfcubes, rows, obj, k, sol, linear_form>>

\* *plf = linear_form with plf == nullptr is undefined behaviour.  Where
\* address 0 is not mapped the assignment traps and the call never returns.
StoreNullTraps ==
  /\ pc = "store" /\ plf = "null"
  /\ hist' = [hist EXCEPT !.stores = @ + 1]
  /\ pc' = "done"
  /\ ret' = "segv"
  /\ UNCHANGED <<tt, plf, plf_vec, ttf, neg_unate, i, fcubes, nfcubes, colno, row, lp, rows,
                 obj, k, sol, linear_form>>

\* Where address 0 is mapped the assignment overwrites what lies there and
\* the call goes on to line 216.
StoreNullLands ==
  /\ pc = "store" /\ plf = "null"
  /\ hist' = [hist EXCEPT !.stores = @ + 1]
  /\ release
  /\ pc' = "done"
  /\ ret' = "true"
  /\ UNCHANGED <<tt, plf, plf_vec, ttf, neg_unate, i, fcubes, nfcubes, rows, obj, k, sol,
                 linear_form>>

(* ------------------------------------------------------------------ the call *)

Next ==
  \/ DontCare \/ NegativeUnate \/ Binate \/ PositiveUnate
  \/ ComputeISOPs
  \/ AllocOk \/ AllocFails
  \/ AddOnRow \/ AddOnRowFails \/ OnRowsDone
  \/ AddOffRow \/ AddOffRowFails
  \/ SetObjective \/ SetObjectiveFails
  \/ SolveInfeasible \/ SolveError \/ SolveOptimal
  \/ BuildForm
  \/ Store \/ StoreNullTraps \/ StoreNullLands

Spec == Init /\ [][Next]_vars

(* ---------------------------------------------------- what the claims speak of *)

\* f rises / falls somewhere when variable v goes from 0 to 1
Rises(t, v) == \E m \in Minterms(t.n) : SetBit(m, v, 0) \notin t.on /\ SetBit(m, v, 1) \in t.on

Falls(t, v) == \E m \in Minterms(t.n) : SetBit(m, v, 0) \in t.on /\ SetBit(m, v, 1) \notin t.on

Ignores(t, v) == ~Rises(t, v) /\ ~Falls(t, v)

NegativeUnateIn(t, v) == Falls(t, v) /\ ~Rises(t, v)

BinateIn(t, v) == Rises(t, v) /\ Falls(t, v)

\* the linear form lf = <<w_1, ..., w_n, T>> evaluated on minterm m
FormSum(lf, m) == LET RECURSIVE acc(_)
                      acc(v) == IF v >= Len(lf) - 1 THEN 0
                                ELSE lf[v + 1] * Bit(m, v) + acc(v + 1)
                  IN acc(0)

Realizes(lf, t) ==
  /\ Len(lf) = t.n + 1
  /\ \A m \in Minterms(t.n) : (m \in t.on) <=> (FormSum(lf, m) >= lf[t.n + 1])

\* t is a threshold function: some integer weights put every ON minterm
\* strictly above every OFF minterm (a threshold then lies between them)
IsThresholdFunction(t) ==
  \E w \in [1 .. t.n -> (-MaxW) .. MaxW] :
     \A a \in t.on : \A b \in Minterms(t.n) \ t.on : Dot(w, a) > Dot(w, b)

\* t with every variable of the set S complemented
FlipAll(t, S) ==
  [n |-> t.n,
   on |-> {m \in Minterms(t.n) :
             LET RECURSIVE image(_, _)
                 image(x, v) == IF v = t.n THEN x
                                ELSE image(IF v \in S THEN SetBit(x, v, 1 - Bit(x, v)) ELSE x, v + 1)
             IN image(m, 0) \in t.on}]

Range(q) == {q[j] : j \in DOMAIN q}

Returned == pc = "done" /\ ret \in {"true", "false"}

\* the unateness loop ran to its end
LoopFinished == (pc = "unate" /\ i = numvars) \/ hist.isop > 0

\* the sum of the entries of lf at the variables of S
SumAt(lf, S) == SumOver(lf, {v + 1 : v \in S})

CoveredBy(cubes, n) == UNION {CubeCovers(cubes[j], n) : j \in DOMAIN cubes}

\* The covers are covers: the cubes of fcubes cover exactly the ON-set of ttf
\* and those of nfcubes exactly its OFF-set, and no cube can be left out.
CoversAreIrredundant ==
  hist.isop > 0 =>
    /\ CoveredBy(fcubes, numvars) = ttf.on
    /\ CoveredBy(nfcubes, numvars) = Minterms(numvars) \ ttf.on
    /\ \A j \in DOMAIN fcubes :
         CoveredBy([h \in 1 .. (Len(fcubes) - 1) |-> fcubes[IF h < j THEN h ELSE h + 1]], numvars)
           # ttf.on
    /\ \A j \in DOMAIN nfcubes :
         CoveredBy([h \in 1 .. (Len(nfcubes) - 1) |-> nfcubes[IF h < j THEN h ELSE h + 1]], numvars)
           # Minterms(numvars) \ ttf.on

(* ------------------------------------------------------------------ the claims *)

\* C1 (soundness): when the call returns true with the form written to the
\* caller's vector, the vector holds n+1 integers <<w_1..w_n, T>> and for
\* each of the 2^n assignments x, tt(x) = 1 iff sum w_i x_i >= T, in the
\* polarities of tt itself.
C1_Soundness ==
  (pc = "done" /\ ret = "true" /\ plf = "vec") => Realizes(plf_vec, tt)

C1_Witness ==
  /\ pc = "done" /\ ret = "true" /\ plf = "vec"
  /\ tt.n = 3 /\ Len(neg_unate) = 1
  /\ \A v \in Vars(3) : ~Ignores(tt, v)

\* C2 (decision): when the solver library does not fail, the call returns,
\* and returns true exactly if tt is a threshold function.
C2_Decision ==
  (pc = "done" /\ ~hist.fault) => (ret = (IF IsThresholdFunction(tt) THEN "true" ELSE "false"))

\* C2 restricted to calls that pass a vector: the decision is right.
C2_DecisionWithVector ==
  (pc = "done" /\ ~hist.fault /\ plf = "vec") =>
     (ret = (IF IsThresholdFunction(tt) THEN "true" ELSE "false"))

\* C3 (release): whenever the call has returned, neither buffer and no LP
\* model is left allocated.
C3_Released ==
  Returned => (colno # "live" /\ row # "live" /\ lp # "live")

\* C4 (no form on failure): with plf pointing to a vector, the vector is as
\* it was before the call until the call returns true, and nothing is ever
\* stored through plf otherwise; when the call has returned true exactly one
\* store was made and the vector holds n+1 integers, entry v+1 being the
\* solver's value of weight column v+1 up to its sign and the last entry
\* coming from the threshold column.
C4_NoFormOnFailure ==
  plf = "vec" =>
    /\ ret # "true" => (plf_vec = OldForm /\ hist.stores = 0)
    /\ ret = "true" =>
         /\ hist.stores = 1
         /\ Len(plf_vec) = numvars + 1
         /\ \A v \in Vars(numvars) :
              plf_vec[v + 1] = (IF v \in Range(neg_unate) THEN -1 ELSE 1) * CastInt64(sol[v + 1])
         /\ plf_vec[numvars + 1] =
              CastInt64(sol[numvars + 1]) + SumAt(plf_vec, Range(neg_unate))

C4_Witness ==
  /\ pc = "done" /\ ret = "true" /\ plf = "vec"
  /\ tt.n = 2 /\ plf_vec # OldForm

C4_WitnessFailure ==
  /\ pc = "done" /\ ret = "false" /\ plf = "vec" /\ hist.solve = 1 /\ ~hist.fault

\* C5 (binate short-circuit): if tt is binate in some variable, the call
\* never leaves the unateness loop except by returning false: isop is never
\* called, no buffer and no LP model is allocated, solve is never called.
C5_BinateShortCircuit ==
  (\E v \in Vars(tt.n) : BinateIn(tt, v)) =>
    /\ pc \in {"unate", "done"}
    /\ ~(pc = "unate" /\ i = numvars)
    /\ pc = "done" => ret = "false"
    /\ hist.isop = 0 /\ hist.solve = 0
    /\ colno = "none" /\ row = "none" /\ lp = "none"
    /\ rows = <<>>

C5_Witness ==
  /\ pc = "done" /\ ret = "false"
  /\ BinateIn(tt, 2) /\ NegativeUnateIn(tt, 0)
  /\ neg_unate = <<0>>

\* C6 (don't-care weight): when the call returns true, the weight returned
\* for a variable tt ignores is 0.
C6_DontCareWeightZero ==
  (pc = "done" /\ ret = "true" /\ plf = "vec") =>
     \A v \in Vars(tt.n) : Ignores(tt, v) => plf_vec[v + 1] = 0

C6_Witness ==
  /\ pc = "done" /\ ret = "true" /\ plf = "vec"
  /\ \E v \in Vars(tt.n) : Ignores(tt, v)
  /\ \E v \in Vars(tt.n) : NegativeUnateIn(tt, v)
  /\ \E v \in Vars(tt.n) : Rises(tt, v) /\ ~Falls(tt, v)

\* C7 (polarity): for a threshold function tt, called with a vector and no
\* solver library failure, the call returns true; the weight returned for a
\* variable in which tt is negative unate is strictly negative and is minus
\* the solver's weight; the other weights are the solver's; the threshold is
\* the solver's plus the sum of the returned weights of the negative-unate
\* variables.
C7_Polarity ==
  (pc = "done" /\ plf = "vec" /\ ~hist.fault /\ IsThresholdFunction(tt)) =>
     /\ ret = "true"
     /\ \A v \in Vars(tt.n) :
          IF NegativeUnateIn(tt, v)
          THEN plf_vec[v + 1] < 0 /\ plf_vec[v + 1] = -CastInt64(sol[v + 1])
          ELSE plf_vec[v + 1] = CastInt64(sol[v + 1])
     /\ plf_vec[tt.n + 1] =
          CastInt64(sol[tt.n + 1]) + SumAt(plf_vec, {v \in Vars(tt.n) : NegativeUnateIn(tt, v)})

C7_Witness ==
  /\ pc = "done" /\ plf = "vec" /\ ret = "true"
  /\ Cardinality({v \in Vars(tt.n) : NegativeUnateIn(tt, v)}) = 2
  /\ \E v \in Vars(tt.n) : plf_vec[v + 1] > 0

\* C8 (normalization): once the unateness loop has run to its end, (a) ttf
\* falls in no variable (it is monotone increasing in each), (b) ttf is tt with exactly the
\* variables of neg_unate complemented, (c) neg_unate lists each variable at
\* most once and lists exactly the variables in which tt itself is negative
\* unate.
C8_Normalization ==
  LoopFinished =>
    /\ \A v \in Vars(tt.n) : ~Falls(ttf, v)
    /\ ttf = FlipAll(tt, Range(neg_unate))
    /\ Cardinality(Range(neg_unate)) = Len(neg_unate)
    /\ Range(neg_unate) = {v \in Vars(tt.n) : NegativeUnateIn(tt, v)}

C8_Witness ==
  /\ pc = "unate" /\ i = numvars
  /\ neg_unate = <<0, 2>>
  /\ Rises(tt, 1)

\* C9 as stated: a variable tt ignores has no coefficient in any row added
\* to the LP, whether from an ON-set cube or from an OFF-set cube.
C9_DontCareInNoRow ==
  \A v \in Vars(tt.n) : Ignores(tt, v) =>
     \A j \in DOMAIN rows : rows[j].coef[v + 1] = 0

\* C9 amended: a variable tt ignores has no coefficient in any row of an
\* ON-set cube, and coefficient 1 in every row of an OFF-set cube.
C9_DontCareRows ==
  \A v \in Vars(tt.n) : Ignores(tt, v) =>
     \A j \in DOMAIN rows :
        rows[j].coef[v + 1] = (IF rows[j].rel = "GE" THEN 0 ELSE 1)

C9_Witness ==
  /\ pc = "solve"
  /\ \E v \in Vars(tt.n) : Ignores(tt, v)
  /\ \E v \in Vars(tt.n) : ~Ignores(tt, v)
  /\ \E j \in DOMAIN rows : rows[j].rel = "GE"
  /\ \E j \in DOMAIN rows : rows[j].rel = "LE"

\* C10 (optional plf): a call with plf == nullptr returns the classification
\* and never stores through plf.
C10_NullNeverDereferenced ==
  plf = "null" => (hist.stores = 0 /\ ret # "segv")

====
